---- MODULE Spec2Model ----
(***************************************************************************)
(* A model of SwingTraderDashboard (src/dashboard.py, a React component):  *)
(* the trade collection and settings it owns, the handlers that change     *)
(* them (TradeForm.handleSubmit/addTrade, EditTradeModal.save/updateTrade, *)
(* deleteTrade, clearAll, importJSON, SettingsModal save) and the derived  *)
(* metrics computed from them on every render.                             *)
(*                                                                         *)
(* JavaScript values are records [k, n, d, s]: k is the kind ("num" a      *)
(* finite number n/d in lowest terms with d > 0, "str" a string with the   *)
(* characters s, "null", "undef", "nan", "inf" with sign n).  Finite       *)
(* numbers are exact rationals: the model computes what IEEE doubles       *)
(* compute wherever the doubles are exact, and does not model their        *)
(* rounding error.                                                         *)
(***************************************************************************)
EXTENDS Integers, Sequences, FiniteSets, TLC

VARIABLES trades, settings, alert, pnlIn, pnlOut, pfIn, pfOut, riskIn, riskOut,
          ddIn, ddOut

vars ==
  <<trades, settings, alert, pnlIn, pnlOut, pfIn, pfOut, riskIn, riskOut, ddIn, ddOut>>

storeVars == <<trades, settings, alert>>
calcVars == <<pnlIn, pnlOut, pfIn, pfOut, riskIn, riskOut, ddIn, ddOut>>

----------------------------------------------------------------------------
(* Bounds of the model. *)

\* The longest trade collection the handlers build.
MaxTrades == 2

\* The longest list of pnl values calcProfitFactor is applied to.
MaxPnLs == 3

----------------------------------------------------------------------------
(* JavaScript values. *)

Abs(x) == IF x < 0 THEN -x ELSE x

RECURSIVE GCD(_, _)
GCD(a, b) == IF b = 0 THEN a ELSE GCD(b, a % b)

\* The finite number n/d (d # 0), in lowest terms with a positive denominator.
Rat(n, d) ==
  LET g == GCD(Abs(n), Abs(d))
      sg == IF d < 0 THEN -1 ELSE 1
  IN [k |-> "num", n |-> (sg * n) \div g, d |-> Abs(d) \div g, s |-> <<>>]

Num(n) == [k |-> "num", n |-> n, d |-> 1, s |-> <<>>]
Str(chars) == [k |-> "str", n |-> 0, d |-> 1, s |-> chars]
Null == [k |-> "null", n |-> 0, d |-> 1, s |-> <<>>]
Undef == [k |-> "undef", n |-> 0, d |-> 1, s |-> <<>>]
NaN == [k |-> "nan", n |-> 0, d |-> 1, s |-> <<>>]
Inf(sign) == [k |-> "inf", n |-> sign, d |-> 1, s |-> <<>>]

Digits == <<"0", "1", "2", "3", "4", "5", "6", "7", "8", "9">>

IsDigit(c) == \E i \in 1..10 : Digits[i] = c
DigitVal(c) == (CHOOSE i \in 1..10 : Digits[i] = c) - 1

RECURSIVE ParseDigits(_)
ParseDigits(chars) ==
  IF chars = <<>> THEN 0
  ELSE 10 * ParseDigits(SubSeq(chars, 1, Len(chars) - 1)) + DigitVal(chars[Len(chars)])

\* Number(string) for the strings the model enters: the empty string is 0, a
\* string of decimal digits is its value, any other text is NaN.
StringToNumber(chars) ==
  IF chars = <<>> THEN Num(0)
  ELSE IF \A i \in 1..Len(chars) : IsDigit(chars[i]) THEN Num(ParseDigits(chars))
  ELSE NaN

\* ToNumber, the coercion of the arithmetic operators and of Number().
ToNumber(v) ==
  CASE v.k = "num" -> v
    [] v.k = "str" -> StringToNumber(v.s)
    [] v.k = "null" -> Num(0)
    [] v.k = "undef" -> NaN
    [] v.k = "nan" -> NaN
    [] v.k = "inf" -> v

\* ToBoolean: what `!x`, `x ? a : b` and `x || y` test.
Truthy(v) ==
  CASE v.k = "num" -> v.n # 0
    [] v.k = "str" -> v.s # <<>>
    [] v.k = "inf" -> TRUE
    [] OTHER -> FALSE

\* x || y
JsOr(x, y) == IF Truthy(x) THEN x ELSE y

\* x != null (loose): false for null and undefined only.
NotNullish(v) == v.k \notin {"null", "undef"}

Sgn(x) == IF x > 0 THEN 1 ELSE IF x < 0 THEN -1 ELSE 0

\* The sign of a number value (0 for NaN).
Sign(v) == IF v.k \in {"num", "inf"} THEN Sgn(v.n) ELSE 0

IsFinite(v) == v.k = "num"

NumNeg(a) == IF a.k \in {"num", "inf"} THEN [a EXCEPT !.n = -a.n] ELSE a

\* a + b on numbers.
NumAdd(a, b) ==
  CASE a.k = "nan" \/ b.k = "nan" -> NaN
    [] a.k = "inf" /\ b.k = "inf" -> IF a.n = b.n THEN a ELSE NaN
    [] a.k = "inf" -> a
    [] b.k = "inf" -> b
    [] OTHER -> Rat(a.n * b.d + b.n * a.d, a.d * b.d)

\* a * b on numbers.
NumMul(a, b) ==
  CASE a.k = "nan" \/ b.k = "nan" -> NaN
    [] a.k = "inf" \/ b.k = "inf" ->
         IF Sign(a) * Sign(b) = 0 THEN NaN ELSE Inf(Sign(a) * Sign(b))
    [] OTHER -> Rat(a.n * b.n, a.d * b.d)

\* a / b on numbers: x/0 is an infinity, 0/0 is NaN.
NumDiv(a, b) ==
  CASE a.k = "nan" \/ b.k = "nan" -> NaN
    [] a.k = "inf" -> IF b.k = "inf" THEN NaN
                      ELSE Inf(a.n * (IF Sign(b) < 0 THEN -1 ELSE 1))
    [] b.k = "inf" -> Num(0)
    [] b.n = 0 -> IF a.n = 0 THEN NaN ELSE Inf(Sgn(a.n))
    [] OTHER -> Rat(a.n * b.d, a.d * b.n)

\* The operators -, *, / of the language: both operands through ToNumber.
JsSub(x, y) == NumAdd(ToNumber(x), NumNeg(ToNumber(y)))
JsMul(x, y) == NumMul(ToNumber(x), ToNumber(y))
JsDiv(x, y) == NumDiv(ToNumber(x), ToNumber(y))
\* The operator + where neither operand is a string.
JsAdd(x, y) == NumAdd(ToNumber(x), ToNumber(y))

\* x > y and x < y: false when either side is NaN.
NumGt(a, b) ==
  CASE a.k = "nan" \/ b.k = "nan" -> FALSE
    [] a.k = "inf" -> a.n > 0 /\ ~(b.k = "inf" /\ b.n > 0)
    [] b.k = "inf" -> b.n < 0
    [] OTHER -> a.n * b.d > b.n * a.d
JsGt(x, y) == NumGt(ToNumber(x), ToNumber(y))
JsLt(x, y) == NumGt(ToNumber(y), ToNumber(x))
\* x <= y
JsLe(x, y) == JsLt(x, y) \/ (ToNumber(x).k # "nan" /\ ToNumber(x) = ToNumber(y))

\* Math.abs
MathAbs(x) == LET a == ToNumber(x) IN IF a.k \in {"num", "inf"} THEN [a EXCEPT !.n = Abs(a.n)] ELSE a

\* round(n, 2) = Math.round((n + Number.EPSILON) * 100) / 100: to the nearest
\* hundredth, a half rounding up.  (Number.EPSILON only moves doubles that lie
\* a rounding error below a half; on exact values it changes nothing.)
round(x) ==
  LET a == ToNumber(x)
  IN IF a.k # "num" THEN a
     ELSE Rat((200 * a.n + a.d) \div (2 * a.d), 100)

----------------------------------------------------------------------------
(* Helpers: math & metrics. *)

LONG == Str(<<"l", "o", "n", "g">>)
SHORT == Str(<<"s", "h", "o", "r", "t">>)

\* calcPnL with the raw profit of a long position computed for every position
\* type (used to show that the claims read the short branch of calcPnL).
calcPnL_ignoresType(entryPrice, exitPrice, qty, positionType, commission) ==
  JsSub(JsMul(JsSub(exitPrice, entryPrice), qty),
        IF commission.k = "undef" THEN Num(0) ELSE commission)

\* calcPnL(entryPrice, exitPrice, qty, positionType, commission = 0)
calcPnL(entryPrice, exitPrice, qty, positionType, commission) ==
  LET raw == IF positionType = LONG
             THEN JsMul(JsSub(exitPrice, entryPrice), qty)
             ELSE JsMul(JsSub(entryPrice, exitPrice), qty)
  IN JsSub(raw, IF commission.k = "undef" THEN Num(0) ELSE commission)

\* calcReturnPct(entryPrice, exitPrice, positionType)
calcReturnPct(entryPrice, exitPrice, positionType) ==
  LET ret == IF positionType = LONG
             THEN JsDiv(JsSub(exitPrice, entryPrice), entryPrice)
             ELSE JsDiv(JsSub(entryPrice, exitPrice), entryPrice)
  IN JsMul(ret, Num(100))

\* new Date(v) as a number.  A date string of the model is two digits, the
\* month then the day ("12" is day 2 of month 1), standing for YYYY-MM-DD; any
\* other string and undefined are Invalid Date (NaN), null is the epoch.
DateValue(v) ==
  CASE v.k = "str" ->
         IF Len(v.s) = 2 /\ IsDigit(v.s[1]) /\ IsDigit(v.s[2])
         THEN Num(ParseDigits(v.s)) ELSE NaN
    [] v.k = "null" -> Num(0)
    [] v.k = "num" -> v
    [] OTHER -> NaN

\* The comparator of calculateEquityCurve's sort, as "a sorts after b".
DateAfter(a, b) ==
  JsGt(JsSub(DateValue(JsOr(a.exitDate, a.entryDate)),
             DateValue(JsOr(b.exitDate, b.entryDate))), Num(0))

\* [...trades].sort(cmp): a stable sort of a copy.  A comparison that yields NaN
\* (an invalid date) counts as equal.
RECURSIVE InsertByDate(_, _)
InsertByDate(sorted, x) ==
  IF sorted = <<>> THEN <<x>>
  ELSE LET last == sorted[Len(sorted)]
       IN IF DateAfter(last, x)
          THEN Append(InsertByDate(SubSeq(sorted, 1, Len(sorted) - 1), x), last)
          ELSE Append(sorted, x)

RECURSIVE SortByDate(_)
SortByDate(ts) ==
  IF ts = <<>> THEN <<>>
  ELSE InsertByDate(SortByDate(SubSeq(ts, 1, Len(ts) - 1)), ts[Len(ts)])

\* The unrounded running equity after the first k trades of the sorted list t.
RECURSIVE RunningEquity(_, _, _)
RunningEquity(t, startingCapital, k) ==
  IF k = 0 THEN startingCapital
  ELSE JsAdd(RunningEquity(t, startingCapital, k - 1),
             calcPnL(t[k].entryPrice, t[k].exitPrice, t[k].quantity,
                     t[k].positionType, JsOr(t[k].commission, Num(0))))

\* calculateEquityCurve(trades, startingCapital): the baseline point, then one
\* point for every trade of the list, in date order.
calculateEquityCurve(ts, startingCapital) ==
  LET t == SortByDate(ts)
  IN [i \in 1..(Len(t) + 1) |->
        IF i = 1 THEN [date |-> Null, equity |-> startingCapital]
        ELSE [date |-> JsOr(t[i - 1].exitDate, t[i - 1].entryDate),
              equity |-> round(RunningEquity(t, startingCapital, i - 1))]]

\* calcDrawdowns(equitySeries), from point i on with the peak and maxDD so far.
RECURSIVE DrawdownFrom(_, _, _, _)
DrawdownFrom(series, i, peak, maxDD) ==
  IF i > Len(series) THEN maxDD
  ELSE LET val == series[i].equity
           peak2 == IF JsGt(val, peak) THEN val ELSE peak
           dd == JsSub(peak2, val)
       IN DrawdownFrom(series, i + 1, peak2, IF JsGt(dd, maxDD) THEN dd ELSE maxDD)

\* calcDrawdowns with the peak held at the first point of the curve.
calcDrawdowns_peakAtStart(equitySeries) ==
  IF equitySeries = <<>> THEN Num(0)
  ELSE LET peak == equitySeries[1].equity
           Drops == {JsSub(peak, equitySeries[i].equity) : i \in 1..Len(equitySeries)}
       IN IF \E d \in Drops : JsGt(d, Num(0))
          THEN CHOOSE d \in Drops : \A e \in Drops : ~JsGt(e, d)
          ELSE Num(0)

calcDrawdowns(equitySeries) == DrawdownFrom(equitySeries, 1, Inf(-1), Num(0))

\* reduce((s, t) => s + t.pnl, 0)
RECURSIVE SumPnl(_)
SumPnl(ts) ==
  IF ts = <<>> THEN Num(0)
  ELSE JsAdd(SumPnl(SubSeq(ts, 1, Len(ts) - 1)), ts[Len(ts)].pnl)

IsWin(t) == JsGt(t.pnl, Num(0))
IsLoss(t) == JsLt(t.pnl, Num(0))

grossWinsOf(ts) == SumPnl(SelectSeq(ts, IsWin))
grossLossesOf(ts) == MathAbs(SumPnl(SelectSeq(ts, IsLoss)))

\* calcProfitFactor without the guard on zero gross losses.
calcProfitFactor_unguarded(ts) == JsDiv(grossWinsOf(ts), grossLossesOf(ts))

\* calcProfitFactor(trades)
calcProfitFactor(ts) ==
  LET grossWins == grossWinsOf(ts)
      grossLosses == grossLossesOf(ts)
  IN IF grossLosses = Num(0)
     THEN (IF JsGt(grossWins, Num(0)) THEN Inf(1) ELSE Num(0))
     ELSE JsDiv(grossWins, grossLosses)

\* The month key of a point's date, as a number that sorts as the key string
\* does: the month of a valid date, and for an Invalid Date the key "NaN-NaN",
\* which sorts after every month.
MonthKey(date) ==
  IF DateValue(date).k = "num" /\ date.k = "str" THEN DigitVal(date.s[1]) ELSE 10

RECURSIVE SortedKeys(_)
SortedKeys(keys) ==
  IF keys = {} THEN <<>>
  ELSE LET m == CHOOSE k \in keys : \A j \in keys : k <= j
       IN <<m>> \o SortedKeys(keys \ {m})

\* monthlyReturnsFromEquity(equitySeries)
monthlyReturnsFromEquity(series) ==
  LET dated == {i \in 1..Len(series) : Truthy(series[i].date)}
      keyOf(i) == MonthKey(series[i].date)
      keys == SortedKeys({keyOf(i) : i \in dated})
      \* map[key]: the equity of the last point of the month
      val(k) == series[CHOOSE i \in dated : keyOf(i) = k /\
                          \A j \in dated : keyOf(j) = k => j <= i].equity
  IN [n \in 1..Len(keys) |->
        IF n = 1 THEN [month |-> keys[n], ret |-> Num(0)]
        ELSE [month |-> keys[n],
              ret |-> round(JsMul(JsDiv(JsSub(val(keys[n]), val(keys[n - 1])),
                                        val(keys[n - 1])), Num(100)))]]

----------------------------------------------------------------------------
(* The component's state and its derived metrics.                          *)
(*                                                                         *)
(* A trade is a record of the fields the handlers and metrics read; a      *)
(* field holding Undef is a key the object does not have.  The free-text   *)
(* fields strategy and notes, takeProfit and the createdAt timestamp are   *)
(* left out: no metric reads them.  pnl and ret are held by a stored trade *)
(* only after an edit, which saves the table row it was opened from.       *)

\* defaultSettings
defaultSettings ==
  [startingCapital |-> Num(10000), defaultCommission |-> Num(1), maxRiskPct |-> Num(2)]

\* tradesWithPnL: every trade with its rounded pnl and return attached.
tradesWithPnL(ts) ==
  [i \in 1..Len(ts) |->
     LET t == ts[i]
         pnl == IF NotNullish(t.exitPrice)
                THEN calcPnL(t.entryPrice, t.exitPrice, t.quantity, t.positionType,
                             JsOr(t.commission, Num(0)))
                ELSE Num(0)
         ret == IF NotNullish(t.exitPrice)
                THEN calcReturnPct(t.entryPrice, t.exitPrice, t.positionType)
                ELSE Num(0)
     IN [t EXCEPT !.pnl = round(pnl), !.ret = round(ret)]]

\* equitySeries
equitySeries(ts, st) == calculateEquityCurve(tradesWithPnL(ts), st.startingCapital)

IsClosed(t) == NotNullish(t.exitPrice)
IsClosedWin(t) == NotNullish(t.exitPrice) /\ JsGt(t.pnl, Num(0))
IsClosedLoss(t) == NotNullish(t.exitPrice) /\ JsLe(t.pnl, Num(0))

totalPnL(ts) == SumPnl(tradesWithPnL(ts))
winTrades(ts) == SelectSeq(tradesWithPnL(ts), IsClosedWin)
lossTrades(ts) == SelectSeq(tradesWithPnL(ts), IsClosedLoss)
closedTrades(ts) == SelectSeq(tradesWithPnL(ts), IsClosed)

winRate(ts) ==
  IF Len(closedTrades(ts)) # 0
  THEN round(JsMul(JsDiv(Num(Len(winTrades(ts))), Num(Len(closedTrades(ts)))), Num(100)))
  ELSE Num(0)

avgWin(ts) ==
  IF Len(winTrades(ts)) # 0
  THEN round(JsDiv(SumPnl(winTrades(ts)), Num(Len(winTrades(ts)))))
  ELSE Num(0)

avgLoss(ts) ==
  IF Len(lossTrades(ts)) # 0
  THEN round(JsDiv(SumPnl(lossTrades(ts)), Num(Len(lossTrades(ts)))))
  ELSE Num(0)

profitFactor(ts) == calcProfitFactor(tradesWithPnL(ts))
maxDrawdown(ts, st) == calcDrawdowns(equitySeries(ts, st))

currentEquity(ts, st) ==
  LET es == equitySeries(ts, st)
  IN IF Len(es) # 0 THEN es[Len(es)].equity ELSE st.startingCapital

\* dailyRets: one return per pair of consecutive points whose first is not 0.
RECURSIVE dailyRetsFrom(_, _)
dailyRetsFrom(es, i) ==
  IF i > Len(es) THEN <<>>
  ELSE LET prev == es[i - 1].equity
           cur == es[i].equity
       IN (IF prev # Num(0) THEN <<JsDiv(JsSub(cur, prev), prev)>> ELSE <<>>)
          \o dailyRetsFrom(es, i + 1)

dailyRets(ts, st) == dailyRetsFrom(equitySeries(ts, st), 2)

monthlyReturns(ts, st) == monthlyReturnsFromEquity(equitySeries(ts, st))

----------------------------------------------------------------------------
(* TradeForm: the strings typed into the form, validate and handleSubmit.  *)

Lower == <<"a", "b", "x">>
Upper == <<"A", "B", "X">>

\* String.prototype.toUpperCase on the letters the model types.
toUpperCase(chars) ==
  [i \in 1..Len(chars) |->
     IF \E j \in 1..Len(Lower) : Lower[j] = chars[i]
     THEN Upper[CHOOSE j \in 1..Len(Lower) : Lower[j] = chars[i]]
     ELSE chars[i]]

\* What the user can type into each input ("" is an input left empty).
SymbolInputs == {<<>>, <<"a">>}
EntryDateInputs == {<<>>, <<"1", "1">>}
EntryPriceInputs == {<<>>, <<"0">>, <<"1", "0", "0">>, <<"x">>}
ExitDateInputs == {<<>>, <<"1", "2">>}
ExitPriceInputs == {<<>>, <<"1", "1", "0">>}
QuantityInputs == {<<>>, <<"1", "0">>}
\* The position type select, left on its initial option.
PositionTypes == {LONG}

\* The form's commission state: the default it was initialised with.
FormCommissions(st) == {st.defaultCommission}

Forms(st) ==
  {[symbol |-> Str(sy), entryDate |-> Str(ed), entryPrice |-> Str(ep),
    exitDate |-> Str(xd), exitPrice |-> Str(xp), positionType |-> pt,
    quantity |-> Str(q), commission |-> c, stopLoss |-> Str(<<>>)] :
     sy \in SymbolInputs, ed \in EntryDateInputs, ep \in EntryPriceInputs,
     xd \in ExitDateInputs, xp \in ExitPriceInputs, pt \in PositionTypes,
     q \in QuantityInputs, c \in FormCommissions(st)}

\* validate() returning null
NoError == "null"

\* validate() without its last test.
validate_noExitDateTest(f) ==
  IF ~Truthy(f.symbol) THEN "symbol required"
  ELSE IF ~Truthy(f.entryDate) \/ ~Truthy(f.entryPrice) \/ ~Truthy(f.quantity)
       THEN "entry date/price/quantity required"
  ELSE NoError

\* validate()
validate(f) ==
  IF ~Truthy(f.symbol) THEN "symbol required"
  ELSE IF ~Truthy(f.entryDate) \/ ~Truthy(f.entryPrice) \/ ~Truthy(f.quantity)
       THEN "entry date/price/quantity required"
  ELSE IF Truthy(f.exitPrice) /\ ~Truthy(f.exitDate)
       THEN "exit date required if exit price set"
  ELSE NoError

\* The trade object handleSubmit builds from the form.
FormTrade(f) ==
  [id |-> Undef,
   symbol |-> Str(toUpperCase(f.symbol.s)),
   entryDate |-> f.entryDate,
   entryPrice |-> ToNumber(f.entryPrice),
   exitDate |-> JsOr(f.exitDate, Null),
   exitPrice |-> IF Truthy(f.exitPrice) THEN ToNumber(f.exitPrice) ELSE Null,
   positionType |-> f.positionType,
   quantity |-> ToNumber(f.quantity),
   commission |-> JsOr(ToNumber(f.commission), Num(0)),
   stopLoss |-> IF Truthy(f.stopLoss) THEN ToNumber(f.stopLoss) ELSE Null,
   pnl |-> Undef,
   ret |-> Undef]

\* cryptoRandomId(): a random string; nothing compares it with the
\* identifiers in use.
IdSpace == {Str(<<"a">>), Str(<<"b">>)}

\* addTrade(trade) with the identifier drawn
addTrade(ts, trade, id) == Append(ts, [trade EXCEPT !.id = id])

\* a === b
StrictEq(a, b) == a = b /\ a.k # "nan"

\* { ...t, ...changes }: the keys of changes over those of t.
Spread(t, changes) ==
  [f \in DOMAIN t |-> IF changes[f].k = "undef" THEN t[f] ELSE changes[f]]

\* updateTrade without the comparison of identifiers: the changes go to every
\* trade.
updateTrade_everyTrade(ts, id, changes) ==
  [i \in 1..Len(ts) |-> Spread(ts[i], changes)]

\* updateTrade(id, changes)
updateTrade(ts, id, changes) ==
  [i \in 1..Len(ts) |-> IF StrictEq(ts[i].id, id) THEN Spread(ts[i], changes) ELSE ts[i]]

IdIsNot(t, id) == ~StrictEq(t.id, id)

\* deleteTrade(id)
deleteTrade(ts, id) == SelectSeq(ts, LAMBDA t : IdIsNot(t, id))

\* What the user can change in the edit modal before saving: one input, to
\* the text given.
EditChoices == {<<"symbol", <<>>>>, <<"exitPrice", <<"9", "0">>>>}

\* The modal's form after the onChange of the input: the row it was opened
\* from (a trade of tradesWithPnL) with the input's field replaced.
EditedForm(row, choice) ==
  LET field == choice[1]
      text == choice[2]
  IN CASE field = "symbol" -> [row EXCEPT !.symbol = Str(text)]
       [] field = "exitPrice" ->
            [row EXCEPT !.exitPrice = IF text # <<>> THEN StringToNumber(text) ELSE Null]
       [] OTHER -> row

----------------------------------------------------------------------------
(* exportJSON and importJSON.  A document is what JSON.parse makes of the  *)
(* file: text that does not parse ("garbage"), the value null, or an       *)
(* object whose keys trades and settings are present or not.               *)

\* JSON.stringify of a value: NaN and the infinities are written as null.
JsonValue(v) == IF v.k \in {"nan", "inf"} THEN Null ELSE v

JsonObject(o) == [f \in DOMAIN o |-> JsonValue(o[f])]

NoSettings == [startingCapital |-> Undef, defaultCommission |-> Undef, maxRiskPct |-> Undef]

\* JSON.parse(JSON.stringify({ trades, settings }, null, 2))
ExportDoc(ts, st) ==
  [root |-> "object",
   trades |-> [present |-> TRUE, v |-> [i \in 1..Len(ts) |-> JsonObject(ts[i])]],
   settings |-> [present |-> TRUE, v |-> JsonObject(st)]]

\* The trades and settings importJSON leaves, and what it alerts.
ImportParses(doc) == doc.root = "object"
ImportedTrades(ts, doc) ==
  IF ImportParses(doc) /\ doc.trades.present THEN doc.trades.v ELSE ts
ImportedSettings(st, doc) ==
  IF ImportParses(doc) /\ doc.settings.present THEN doc.settings.v ELSE st
ImportAlert(doc) == IF ImportParses(doc) THEN "Imported successfully." ELSE "Invalid JSON"


\* A trade object with the given fields and no others.
Trade(id, symbol, entryDate, entryPrice, exitDate, exitPrice, positionType, quantity, commission) ==
  [id |-> id, symbol |-> symbol, entryDate |-> entryDate, entryPrice |-> entryPrice,
   exitDate |-> exitDate, exitPrice |-> exitPrice, positionType |-> positionType,
   quantity |-> quantity, commission |-> commission, stopLoss |-> Undef,
   pnl |-> Undef, ret |-> Undef]

\* Files the user can pick for an import.
GarbageDoc ==
  [root |-> "garbage", trades |-> [present |-> FALSE, v |-> <<>>],
   settings |-> [present |-> FALSE, v |-> NoSettings]]
NullDoc == [GarbageDoc EXCEPT !.root = "null"]
EmptyObjectDoc == [GarbageDoc EXCEPT !.root = "object"]
\* { "trades": [ { "id": "a", "symbol": "A" } ] }
TradesOnlyDoc ==
  [EmptyObjectDoc EXCEPT !.trades =
     [present |-> TRUE,
      v |-> <<Trade(Str(<<"a">>), Str(<<"A">>), Undef, Undef, Undef, Undef, Undef, Undef, Undef)>>]]
\* A backup of two closed long trades, the later one first, and its settings.
BackupDoc ==
  [root |-> "object",
   trades |-> [present |-> TRUE,
               v |-> <<Trade(Str(<<"a">>), Str(<<"A">>), Str(<<"1", "1">>), Num(100),
                             Str(<<"2", "1">>), Num(90), LONG, Num(10), Num(0)),
                       Trade(Str(<<"b">>), Str(<<"B">>), Str(<<"1", "1">>), Num(100),
                             Str(<<"1", "2">>), Num(110), LONG, Num(10), Num(0))>>],
   settings |-> [present |-> TRUE, v |-> defaultSettings]]

\* A file written by hand: one closed long trade without a commission key, and
\* no settings.
NoCommissionDoc ==
  [EmptyObjectDoc EXCEPT !.trades =
     [present |-> TRUE,
      v |-> <<Trade(Str(<<"a">>), Str(<<"A">>), Str(<<"1", "1">>), Num(100),
                    Str(<<"1", "2">>), Num(110), LONG, Num(10), Undef)>>]]

\* Two backups merged by hand: the same closed trade twice, identifier included.
DuplicateIdDoc ==
  [EmptyObjectDoc EXCEPT !.trades =
     [present |-> TRUE,
      v |-> <<Trade(Str(<<"a">>), Str(<<"A">>), Str(<<"1", "1">>), Num(100),
                    Str(<<"1", "2">>), Num(110), LONG, Num(10), Num(0)),
              Trade(Str(<<"a">>), Str(<<"A">>), Str(<<"1", "1">>), Num(100),
                    Str(<<"1", "2">>), Num(110), LONG, Num(10), Num(0))>>]]

SampleDocs ==
  {GarbageDoc, NullDoc, EmptyObjectDoc, TradesOnlyDoc, BackupDoc, NoCommissionDoc,
   DuplicateIdDoc}

\* What the user can type as the starting capital in the settings modal.
CapitalInputs == {<<"1", "0", "0", "0", "0">>, <<"0">>}

----------------------------------------------------------------------------
(* The risk calculation of TradeForm, from the form's state and its props. *)

riskPerShareOf(f) ==
  IF Truthy(f.stopLoss)
  THEN MathAbs(IF f.positionType = LONG THEN JsSub(f.entryPrice, f.stopLoss)
               ELSE JsSub(f.stopLoss, f.entryPrice))
  ELSE Num(0)

riskAmountOf(f) ==
  IF Truthy(riskPerShareOf(f)) /\ Truthy(f.quantity)
  THEN JsAdd(JsMul(riskPerShareOf(f), f.quantity), ToNumber(JsOr(f.commission, Num(0))))
  ELSE Num(0)

riskPctOfCapitalOf(f) ==
  IF Truthy(f.startingCapital)
  THEN JsMul(JsDiv(riskAmountOf(f), f.startingCapital), Num(100))
  ELSE Num(0)

\* The flag raised at the limit already.
exceedsLimit_atLimit(f) == ~JsLt(riskPctOfCapitalOf(f), f.maxRiskPct)

exceedsLimit(f) == JsGt(riskPctOfCapitalOf(f), f.maxRiskPct)

RiskCalc(f) ==
  [riskPerShare |-> riskPerShareOf(f), riskAmount |-> riskAmountOf(f),
   riskPctOfCapital |-> riskPctOfCapitalOf(f), exceeds |-> exceedsLimit(f)]

----------------------------------------------------------------------------
(* The component as a state machine: trades and settings are its state,    *)
(* alert is the text of the last alert() shown ("" before the first).      *)

\* A helper specification's input before it is drawn, and its output before
\* the helper is applied.
NoInput == <<>>
NotDone == [done |-> FALSE]

CalcIdle ==
  /\ pnlIn = NoInput /\ pnlOut = NotDone
  /\ pfIn = NoInput /\ pfOut = NotDone
  /\ riskIn = NoInput /\ riskOut = NotDone
  /\ ddIn = NoInput /\ ddOut = NotDone

\* First run: nothing in localStorage.
Init ==
  /\ trades = <<>>
  /\ settings = defaultSettings
  /\ alert = ""
  /\ CalcIdle

\* What TradeForm.handleSubmit leaves of the collection ts and of the last
\* alert al, for the form f and the identifier addTrade draws.
handleSubmit(ts, al, f, id) ==
  IF validate(f) # NoError
  THEN [trades |-> ts, alert |-> validate(f)]
  ELSE [trades |-> addTrade(ts, FormTrade(f), id), alert |-> al]

\* cryptoRandomId is called by addTrade only: a rejected submission draws none.
DrawnIds(f) == IF validate(f) = NoError THEN IdSpace ELSE {Undef}

HandleSubmit(f) ==
  \E id \in DrawnIds(f) :
    /\ validate(f) = NoError => Len(trades) < MaxTrades
    /\ trades' = handleSubmit(trades, alert, f, id).trades
    /\ alert' = handleSubmit(trades, alert, f, id).alert
    /\ UNCHANGED settings

Submit ==
  /\ \E f \in Forms(settings) : HandleSubmit(f)
  /\ UNCHANGED calcVars

\* Edit on row i of the table, one change in the modal, Save.
EditSave(i, choice) ==
  LET row == tradesWithPnL(trades)[i]
      form == EditedForm(row, choice)
  IN IF ~Truthy(form.symbol)
     THEN /\ alert' = "symbol required"
          /\ UNCHANGED <<trades, settings>>
     ELSE /\ trades' = updateTrade(trades, row.id, form)
          /\ UNCHANGED <<settings, alert>>

Edit ==
  /\ \E i \in 1..Len(trades), choice \in EditChoices : EditSave(i, choice)
  /\ UNCHANGED calcVars

\* Delete on row i of the table, confirmed.
Delete ==
  /\ \E i \in 1..Len(trades) : trades' = deleteTrade(trades, trades[i].id)
  /\ UNCHANGED <<settings, alert>>
  /\ UNCHANGED calcVars

\* clearAll, confirmed.
Clear ==
  /\ trades' = <<>>
  /\ UNCHANGED <<settings, alert>>
  /\ UNCHANGED calcVars

\* importJSON(file), to the end of reader.onload.
ImportJSON(doc) ==
  /\ trades' = ImportedTrades(trades, doc)
  /\ settings' = ImportedSettings(settings, doc)
  /\ alert' = ImportAlert(doc)

\* The user imports a file of theirs, or the file Export has just written.
Import ==
  /\ \E doc \in SampleDocs \cup {ExportDoc(trades, settings)} : ImportJSON(doc)
  /\ UNCHANGED calcVars

\* SettingsModal: a starting capital typed, Save.
SaveSettings ==
  /\ \E text \in CapitalInputs :
       settings' = [settings EXCEPT !.startingCapital = StringToNumber(text)]
  /\ UNCHANGED <<trades, alert>>
  /\ UNCHANGED calcVars

Next == Submit \/ Edit \/ Delete \/ Clear \/ Import \/ SaveSettings

Spec == Init /\ [][Next]_vars

----------------------------------------------------------------------------
(* The pure helpers applied to inputs of their own: one specification per  *)
(* helper, its input drawn by Init and the helper applied once.            *)

StoreIdle == trades = <<>> /\ settings = defaultSettings /\ alert = ""

\* calcPnL and tradesWithPnL on one closed trade.
PnlPrices == {Num(1), Rat(1001, 1000), Num(100), Num(110)}
PnlQuantities == {Num(1), Num(10)}
PnlCommissions == {Num(0), Num(1), Num(200)}

PnlInputs ==
  [entryPrice : PnlPrices, exitPrice : PnlPrices, quantity : PnlQuantities,
   positionType : {LONG, SHORT}, commission : PnlCommissions]

PnlTrade(in) ==
  Trade(Str(<<"a">>), Str(<<"A">>), Str(<<"1", "1">>), in.entryPrice, Str(<<"1", "2">>),
        in.exitPrice, in.positionType, in.quantity, in.commission)

PnlInit ==
  /\ StoreIdle
  /\ pnlIn \in PnlInputs /\ pnlOut = NotDone
  /\ pfIn = NoInput /\ pfOut = NotDone
  /\ riskIn = NoInput /\ riskOut = NotDone
  /\ ddIn = NoInput /\ ddOut = NotDone

ApplyCalcPnL ==
  /\ ~pnlOut.done
  /\ pnlOut' = [done |-> TRUE,
                raw |-> calcPnL(pnlIn.entryPrice, pnlIn.exitPrice, pnlIn.quantity,
                                pnlIn.positionType, pnlIn.commission),
                pnl |-> tradesWithPnL(<<PnlTrade(pnlIn)>>)[1].pnl,
                ret |-> tradesWithPnL(<<PnlTrade(pnlIn)>>)[1].ret]
  /\ UNCHANGED <<pnlIn, pfIn, pfOut, riskIn, riskOut, ddIn, ddOut>>
  /\ UNCHANGED storeVars

PnlSpec == PnlInit /\ [][ApplyCalcPnL]_vars

\* calcProfitFactor on a list of trades with their pnl.
PnlValues == {Num(-100), Num(-50), Num(0), Num(50), Num(100)}

PfInputs == UNION {[1..n -> [pnl : PnlValues]] : n \in 0..MaxPnLs}

PfInit ==
  /\ StoreIdle
  /\ pnlIn = NoInput /\ pnlOut = NotDone
  /\ pfIn \in PfInputs /\ pfOut = NotDone
  /\ riskIn = NoInput /\ riskOut = NotDone
  /\ ddIn = NoInput /\ ddOut = NotDone

ApplyProfitFactor ==
  /\ ~pfOut.done
  /\ pfOut' = [done |-> TRUE, pf |-> calcProfitFactor(pfIn)]
  /\ UNCHANGED <<pnlIn, pnlOut, pfIn, riskIn, riskOut, ddIn, ddOut>>
  /\ UNCHANGED storeVars

PfSpec == PfInit /\ [][ApplyProfitFactor]_vars

\* The risk calculation on a form state and the settings passed as props.
RiskInputs ==
  [entryPrice : {Str(<<"5", "0">>)},
   stopLoss : {Str(<<>>), Str(<<"4", "8">>), Str(<<"5", "0">>), Str(<<"5", "2">>)},
   quantity : {Str(<<>>), Str(<<"1", "0", "0">>)},
   commission : {Num(1), Str(<<"5">>), Str(<<>>)},
   positionType : {LONG, SHORT},
   startingCapital : {Num(10000), Num(0)},
   maxRiskPct : {Num(2), Num(3)}]

RiskInit ==
  /\ StoreIdle
  /\ pnlIn = NoInput /\ pnlOut = NotDone
  /\ pfIn = NoInput /\ pfOut = NotDone
  /\ riskIn \in RiskInputs /\ riskOut = NotDone
  /\ ddIn = NoInput /\ ddOut = NotDone

ApplyRiskCalc ==
  /\ ~riskOut.done
  /\ riskOut' = [done |-> TRUE] @@ RiskCalc(riskIn)
  /\ UNCHANGED <<pnlIn, pnlOut, pfIn, pfOut, riskIn, ddIn, ddOut>>
  /\ UNCHANGED storeVars

RiskSpec == RiskInit /\ [][ApplyRiskCalc]_vars

\* calcDrawdowns on an equity curve of its own.
MaxPoints == 4
EquityValues == {Num(9900), Num(10000), Num(10100)}

DdInputs == UNION {[1..n -> [date : {Null}, equity : EquityValues]] : n \in 0..MaxPoints}

DdInit ==
  /\ StoreIdle
  /\ pnlIn = NoInput /\ pnlOut = NotDone
  /\ pfIn = NoInput /\ pfOut = NotDone
  /\ riskIn = NoInput /\ riskOut = NotDone
  /\ ddIn \in DdInputs /\ ddOut = NotDone

ApplyDrawdowns ==
  /\ ~ddOut.done
  /\ ddOut' = [done |-> TRUE, maxDD |-> calcDrawdowns(ddIn)]
  /\ UNCHANGED <<pnlIn, pnlOut, pfIn, pfOut, riskIn, riskOut, ddIn>>
  /\ UNCHANGED storeVars

DdSpec == DdInit /\ [][ApplyDrawdowns]_vars

\* The Add-Trade form with its risk figures on display, then submitted: the
\* form's state is the risk calculation's input with a symbol and an entry
\* date typed, and the settings are the props the form was given.
RiskForm(in) ==
  [symbol |-> Str(<<"a">>), entryDate |-> Str(<<"1", "1">>), entryPrice |-> in.entryPrice,
   exitDate |-> Str(<<>>), exitPrice |-> Str(<<>>), positionType |-> in.positionType,
   quantity |-> in.quantity, commission |-> in.commission, stopLoss |-> in.stopLoss]

AdvisoryInit ==
  /\ trades = <<>> /\ alert = ""
  /\ riskIn \in RiskInputs /\ riskOut = NotDone
  /\ settings = [defaultSettings EXCEPT !.startingCapital = riskIn.startingCapital,
                                        !.maxRiskPct = riskIn.maxRiskPct]
  /\ pnlIn = NoInput /\ pnlOut = NotDone
  /\ pfIn = NoInput /\ pfOut = NotDone
  /\ ddIn = NoInput /\ ddOut = NotDone

SubmitRiskForm ==
  /\ riskOut.done
  /\ trades = <<>> /\ alert = ""
  /\ HandleSubmit(RiskForm(riskIn))
  /\ UNCHANGED calcVars

AdvisorySpec == AdvisoryInit /\ [][ApplyRiskCalc \/ SubmitRiskForm]_vars

----------------------------------------------------------------------------
(* The claims. *)

\* The equity of the last point of the curve.
FinalEquity(ts, st) ==
  LET es == equitySeries(ts, st) IN es[Len(es)].equity

\* The sum of calcPnL, unrounded, over the trades of ts with an exit price.
RECURSIVE ClosedPnlTotal(_)
ClosedPnlTotal(ts) ==
  IF ts = <<>> THEN Num(0)
  ELSE LET t == ts[Len(ts)]
           rest == ClosedPnlTotal(SubSeq(ts, 1, Len(ts) - 1))
       IN IF NotNullish(t.exitPrice)
          THEN JsAdd(rest, calcPnL(t.entryPrice, t.exitPrice, t.quantity, t.positionType,
                                   JsOr(t.commission, Num(0))))
          ELSE rest

Permuted(ts, p) == [i \in 1..Len(ts) |-> ts[p[i]]]

\* Every trade of ts has finite numbers for its prices, quantity and
\* commission (the exit price of an open trade is null) and strings for its dates.
NumericTrade(t) ==
  /\ t.entryPrice.k = "num" /\ t.quantity.k = "num" /\ t.commission.k = "num"
  /\ t.exitPrice.k \in {"num", "null"}
  /\ t.entryDate.k = "str" /\ t.exitDate.k \in {"str", "null"}
NumericTrades(ts) == \A i \in 1..Len(ts) : NumericTrade(ts[i])

\* C1: the last point of the equity curve is the starting capital plus the pnl
\* of exactly the trades with an exit price (to the curve's two decimals), and
\* is the same for every order of the collection (stated for the collections
\* whose numeric fields are finite numbers).
C1_FinalEquityIsCapitalPlusClosedPnl ==
  NumericTrades(trades) =>
  /\ FinalEquity(trades, settings)
       = round(JsAdd(settings.startingCapital, ClosedPnlTotal(trades)))
  /\ \A p \in Permutations(1..Len(trades)) :
       FinalEquity(Permuted(trades, p), settings) = FinalEquity(trades, settings)

\* C2: every stored trade has an exit price if and only if it has an exit date.
C2_ExitPriceIffExitDate ==
  \A i \in 1..Len(trades) :
    NotNullish(trades[i].exitPrice) <=> NotNullish(trades[i].exitDate)

\* The submissions C3 is about: symbol missing, or entry date, entry price or
\* quantity missing, or an exit price without an exit date.
MissingInput(f) ==
  \/ f.symbol.s = <<>>
  \/ f.entryDate.s = <<>> \/ f.entryPrice.s = <<>> \/ f.quantity.s = <<>>
  \/ (f.exitPrice.s # <<>> /\ f.exitDate.s = <<>>)

RejectionReasons ==
  {"symbol required", "entry date/price/quantity required",
   "exit date required if exit price set"}

\* C3: in every reachable state, submitting a form with a missing symbol, entry
\* date, entry price or quantity, or with an exit price and no exit date, alerts a
\* reason and leaves the collection exactly as it was.
C3_InvalidSubmitRejected ==
  \A f \in Forms(settings), id \in IdSpace :
    MissingInput(f) =>
      /\ handleSubmit(trades, alert, f, id).trades = trades
      /\ handleSubmit(trades, alert, f, id).alert \in RejectionReasons

\* A submission with an exit price and no exit date was rejected while the
\* collection held a trade.
C3_Witness ==
  /\ alert = "exit date required if exit price set"
  /\ Len(trades) > 0

\* A document in error: not JSON, not of the shape {trades, settings}, or with a
\* trade that lacks a required field.
LacksRequired(t) ==
  \/ ~NotNullish(t.symbol) \/ ~NotNullish(t.entryDate)
  \/ ~NotNullish(t.entryPrice) \/ ~NotNullish(t.quantity)

DocInError(doc) ==
  \/ doc.root # "object"
  \/ ~doc.trades.present \/ ~doc.settings.present
  \/ \E i \in 1..Len(doc.trades.v) : LacksRequired(doc.trades.v[i])

\* C4: an import of a document in error reports a failure and leaves the trades
\* and the settings as they were.
C4_ImportAllOrNothing ==
  [][\A doc \in SampleDocs :
       (DocInError(doc) /\ ImportJSON(doc)) =>
         (alert' = "Invalid JSON" /\ trades' = trades /\ settings' = settings)]_vars

\* C5: importing the document exportJSON writes gives back the same trades,
\* field for field, the same settings and the same normalized trades.
C5_ExportImportRoundTrip ==
  LET doc == ExportDoc(trades, settings)
  IN /\ ImportedTrades(trades, doc) = trades
     /\ ImportedSettings(settings, doc) = settings
     /\ tradesWithPnL(ImportedTrades(trades, doc)) = tradesWithPnL(trades)


\* Gross wins and gross losses of a list of integer pnl values, summed apart
\* from the code: the sum of the positive ones, and minus the sum of the
\* negative ones.
RECURSIVE GrossWinsInt(_)
GrossWinsInt(ts) ==
  IF ts = <<>> THEN 0
  ELSE GrossWinsInt(Tail(ts)) + (IF Head(ts).pnl.n > 0 THEN Head(ts).pnl.n ELSE 0)

RECURSIVE GrossLossesInt(_)
GrossLossesInt(ts) ==
  IF ts = <<>> THEN 0
  ELSE GrossLossesInt(Tail(ts)) + (IF Head(ts).pnl.n < 0 THEN -Head(ts).pnl.n ELSE 0)

\* The value v is the quotient w / l.
IsQuotient(v, w, l) == v.k = "num" /\ v.n * l = w * v.d

\* C6 as amended: calcProfitFactor returns +infinity exactly when gross losses
\* are 0 and gross wins are positive, returns 0 exactly when gross wins are 0
\* (whatever the gross losses), and returns grossWins / grossLosses whenever
\* gross losses are not 0.
C6_ProfitFactorCases ==
  pfOut.done =>
    LET w == GrossWinsInt(pfIn)
        l == GrossLossesInt(pfIn)
    IN /\ (pfOut.pf = Inf(1)) <=> (l = 0 /\ w > 0)
       /\ (pfOut.pf = Num(0)) <=> (w = 0)
       /\ l # 0 => IsQuotient(pfOut.pf, w, l)

\* Profit factor 0 for a list of losses only.
C6_Witness ==
  pfOut.done /\ pfOut.pf = Num(0) /\ GrossLossesInt(pfIn) > 0

\* C6 as claimed: calcProfitFactor returns +infinity exactly when gross losses
\* are 0 and gross wins are positive, returns 0 exactly when gross wins and gross
\* losses are both 0, and returns grossWins / grossLosses otherwise.
C6_ZeroIffBothZero ==
  pfOut.done =>
    LET w == GrossWinsInt(pfIn)
        l == GrossLossesInt(pfIn)
    IN /\ (pfOut.pf = Inf(1)) <=> (l = 0 /\ w > 0)
       /\ (pfOut.pf = Num(0)) <=> (w = 0 /\ l = 0)
       /\ l # 0 => IsQuotient(pfOut.pf, w, l)

\* The sign of (exitPrice - entryPrice) for a long position, of
\* (entryPrice - exitPrice) for a short one.
Direction(in) ==
  LET diff == in.exitPrice.n * in.entryPrice.d - in.entryPrice.n * in.exitPrice.d
  IN IF in.positionType = LONG THEN Sgn(diff) ELSE -Sgn(diff)

\* C7 as amended: for a closed trade the sign of pnl + commission is the sign
\* of the price move in the position's direction; with a commission of 0 the
\* pnl of calcPnL has that sign, and the pnl tradesWithPnL rounds to two
\* decimals has that sign or is 0.
C7_PnlSignWithoutCommission ==
  pnlOut.done =>
    /\ Sign(JsAdd(pnlOut.raw, pnlIn.commission)) = Direction(pnlIn)
    /\ pnlIn.commission = Num(0) =>
         /\ Sign(pnlOut.raw) = Direction(pnlIn)
         /\ Sign(pnlOut.pnl) \in {0, Direction(pnlIn)}

\* A short trade without commission whose price fell by a tenth of a cent: a
\* positive pnl, rounded to 0 by tradesWithPnL.
C7_Witness ==
  /\ pnlOut.done /\ pnlIn.commission = Num(0) /\ pnlIn.positionType = SHORT
  /\ Sign(pnlOut.raw) = 1 /\ pnlOut.pnl = Num(0)

\* C7 as claimed: for a closed trade with a positive quantity and any
\* non-negative commission, the sign of the pnl is the sign of the price move in
\* the position's direction.
C7_PnlSignIsDirection ==
  pnlOut.done => Sign(pnlOut.raw) = Direction(pnlIn)

\* The collection without its open trades.
WithoutOpen(ts) == SelectSeq(ts, IsClosed)

\* C8: the open trades of the collection change nothing in total P&L, win rate,
\* average win and loss, profit factor, the points of the equity curve, max
\* drawdown and the Sharpe return series: each is what it is for the collection
\* without them (stated for the collections whose numeric fields are finite
\* numbers).
C8_OpenTradesChangeNoMetric ==
  NumericTrades(trades) =>
    LET c == WithoutOpen(trades)
    IN /\ totalPnL(trades) = totalPnL(c)
       /\ winRate(trades) = winRate(c)
       /\ avgWin(trades) = avgWin(c)
       /\ avgLoss(trades) = avgLoss(c)
       /\ profitFactor(trades) = profitFactor(c)
       /\ equitySeries(trades, settings) = equitySeries(c, settings)
       /\ maxDrawdown(trades, settings) = maxDrawdown(c, settings)
       /\ dailyRets(trades, settings) = dailyRets(c, settings)

\* The commission the risk calculation is given: the form's commission state,
\* 0 when the input is empty.
RiskCommission(in) == ToNumber(JsOr(in.commission, Num(0))).n

\* C9: with a quantity entered and a positive starting capital, riskPerShare is
\* |entryPrice - stopLoss| (0 without a stop-loss), riskAmount is
\* riskPerShare * quantity + commission, and riskPercentOfCapital is
\* riskAmount / startingCapital * 100.
C9_RiskFormulas ==
  (riskOut.done /\ riskIn.quantity.s # <<>> /\ riskIn.startingCapital.n > 0) =>
    LET perShare == IF riskIn.stopLoss.s = <<>> THEN 0
                    ELSE Abs(ParseDigits(riskIn.entryPrice.s) - ParseDigits(riskIn.stopLoss.s))
        amount == perShare * ParseDigits(riskIn.quantity.s) + RiskCommission(riskIn)
    IN /\ riskOut.riskPerShare = Num(perShare)
       /\ riskOut.riskAmount = Num(amount)
       /\ riskOut.riskPctOfCapital = Rat(100 * amount, riskIn.startingCapital.n)

\* C10: for a collection whose numeric fields are finite numbers, every return
\* percentage, the win rate, the average win and loss, the Sharpe return series
\* and the monthly returns are finite numbers, and the profit factor is a finite
\* number or +infinity.
C10_RatiosDefined ==
  (NumericTrades(trades) /\ IsFinite(settings.startingCapital)) =>
    /\ \A i \in 1..Len(trades) : IsFinite(tradesWithPnL(trades)[i].ret)
    /\ IsFinite(winRate(trades)) /\ IsFinite(avgWin(trades)) /\ IsFinite(avgLoss(trades))
    /\ IsFinite(profitFactor(trades)) \/ profitFactor(trades) = Inf(1)
    /\ \A i \in 1..Len(dailyRets(trades, settings)) : IsFinite(dailyRets(trades, settings)[i])
    /\ \A i \in 1..Len(monthlyReturns(trades, settings)) :
         IsFinite(monthlyReturns(trades, settings)[i].ret)

\* The commission the trade t is to be charged: its own when it has one, the
\* configured default when the field is absent or null.
CommissionDue(t, st) ==
  IF NotNullish(t.commission) THEN t.commission ELSE st.defaultCommission

\* calcPnL of the closed trade t with the commission it is to be charged.
PnlDue(t, st) ==
  calcPnL(t.entryPrice, t.exitPrice, t.quantity, t.positionType, CommissionDue(t, st))

HasNumericPrices(t) ==
  /\ t.entryPrice.k = "num" /\ t.exitPrice.k = "num" /\ t.quantity.k = "num"
  /\ t.commission.k \in {"num", "null", "undef"}

\* C11: the pnl of every closed trade, and the equity point of a collection of
\* one closed trade, are computed with the trade's own commission when it has
\* one (0 included) and with settings.defaultCommission when the field is
\* absent or null.
C11_AbsentCommissionIsDefault ==
  /\ \A i \in 1..Len(trades) :
       HasNumericPrices(trades[i]) =>
         tradesWithPnL(trades)[i].pnl = round(PnlDue(trades[i], settings))
  /\ (Len(trades) = 1 /\ HasNumericPrices(trades[1])
        /\ IsFinite(settings.startingCapital)) =>
       FinalEquity(trades, settings)
         = round(JsAdd(settings.startingCapital, PnlDue(trades[1], settings)))

\* The identifiers of the collection ts, in order.
IdsOf(ts) == [i \in 1..Len(ts) |-> ts[i].id]

\* C12: in every reachable state the identifiers of the trades are pairwise
\* distinct; an accepted submission leaves the collection as it was with one
\* trade appended at the end; saving an edit leaves every identifier where it was.
C12_IdsPairwiseDistinct ==
  /\ \A i, j \in 1..Len(trades) : i # j => trades[i].id # trades[j].id
  /\ \A f \in Forms(settings), id \in IdSpace :
       validate(f) = NoError =>
         LET after == handleSubmit(trades, alert, f, id).trades
         IN /\ Len(after) = Len(trades) + 1
            /\ SubSeq(after, 1, Len(trades)) = trades
            /\ after[Len(after)].id = id
  /\ \A i \in 1..Len(trades), choice \in EditChoices :
       LET row == tradesWithPnL(trades)[i]
       IN IdsOf(updateTrade(trades, row.id, EditedForm(row, choice))) = IdsOf(trades)

\* The largest of a non-empty set of integers.
MaxOf(S) == CHOOSE x \in S : \A y \in S : y <= x

\* max(equity[1..i]) - equity[i] for point i of a curve of whole numbers.
DropAt(series, i) == MaxOf({series[j].equity.n : j \in 1..i}) - series[i].equity.n

IsNonDecreasing(series) ==
  \A i \in 1..(Len(series) - 1) : series[i].equity.n <= series[i + 1].equity.n

\* C13: calcDrawdowns returns the largest, over the points of the curve, of the
\* running peak minus the point's equity; the result is never negative, is 0
\* for a curve of at most one point and is 0 for a non-decreasing curve.
C13_MaxDrawdownIsLargestDrop ==
  ddOut.done =>
    /\ ddOut.maxDD.k = "num" /\ ddOut.maxDD.d = 1 /\ ddOut.maxDD.n >= 0
    /\ ddOut.maxDD.n = MaxOf({0} \cup {DropAt(ddIn, i) : i \in 1..Len(ddIn)})
    /\ Len(ddIn) <= 1 => ddOut.maxDD = Num(0)
    /\ IsNonDecreasing(ddIn) => ddOut.maxDD = Num(0)

\* The curve [10000, 10100, 10000] has been given a drawdown of 100.
C13_Witness ==
  /\ ddOut.done
  /\ [i \in 1..Len(ddIn) |-> ddIn[i].equity] = <<Num(10000), Num(10100), Num(10000)>>
  /\ ddOut.maxDD = Num(100)

\* The positions of ts whose trade has another identifier than id, and the
\* k-th of them from the start.
KeptPositions(ts, id) == {j \in 1..Len(ts) : ts[j].id # id}
NthKept(ts, id, k) ==
  CHOOSE j \in KeptPositions(ts, id) :
    Cardinality({m \in KeptPositions(ts, id) : m <= j}) = k

\* The fields of a trade that normalization does not compute.
StoredFields == DOMAIN Trade(Null, Null, Null, Null, Null, Null, Null, Null, Null) \ {"pnl", "ret"}

RatGreater(a, b) == a.n * b.d > b.n * a.d

\* C15: the exceeds-limit flag is raised exactly when the risk percent of
\* capital on display is strictly greater than maxRiskPct, and a form that
\* passes validation is appended to the collection as built, whether the flag
\* is raised or not.
C15_RiskFlagAdvisory ==
  riskOut.done =>
    /\ riskOut.riskPctOfCapital.k = "num"
    /\ riskOut.exceeds <=> RatGreater(riskOut.riskPctOfCapital, riskIn.maxRiskPct)
    /\ \A id \in IdSpace :
         validate(RiskForm(riskIn)) = NoError =>
           handleSubmit(<<>>, "", RiskForm(riskIn), id).trades
             = <<[FormTrade(RiskForm(riskIn)) EXCEPT !.id = id]>>
    /\ trades # <<>> => trades[1].stopLoss = FormTrade(RiskForm(riskIn)).stopLoss

\* A trade whose risk exceeded the limit has been stored.
C15_Witness ==
  /\ riskOut.done /\ riskOut.exceeds
  /\ Len(trades) = 1
  /\ trades[1].stopLoss = Num(48)

====
